---------------------------- MODULE Spec2Model ----------------------------
(***************************************************************************)
(* sesx2pl (src/index.js): Audition .sesx session  ->  CUE sheet / M3U.    *)
(*                                                                         *)
(* The program is one synchronous pass: signature check, line scan, build  *)
(* of the raw playlist, sort, render, write.  The state below is the       *)
(* script's top-level bindings; every action is one statement group or one *)
(* forEach iteration of the script.                                        *)
(*                                                                         *)
(* Representation.                                                         *)
(*  - A JavaScript string is a sequence of tokens (a token is a piece of   *)
(*    text that the program never looks inside, or one of the separators   *)
(*    the program searches for).  "" is << >>.                             *)
(*  - A JavaScript value is [t, v]: undefined, null or a string.           *)
(*  - A JavaScript number is NaN or the exact rational num/den (den > 0,   *)
(*    reduced).  Rounding of IEEE doubles is not modelled.                 *)
(*  - A line of the session file is its leading white space, the text it   *)
(*    starts with once trimmed (tag) and, for each of the eight patterns   *)
(*    of lines 62-69, the text the pattern captures on that line           *)
(*    (undefined when the pattern does not match).                         *)
(***************************************************************************)
EXTENDS Integers, Sequences, FiniteSets, TLC

VARIABLES
    sesx,        \* line 50: the lines of the input file
    options,     \* line 26: track, source, delta, info, and the outfile's extension
    pc,          \* position of the script
    i,           \* line 81: index of the next line of the scan (0-based)
    tracks,      \* line 71
    files,       \* line 72
    playlist,    \* line 73
    sampleRate,  \* line 77
    _track,      \* line 79: index into tracks of the current track, 0 = undefined
    _name,       \* line 79
    sel,         \* line 115: position in the selected-track list (0-based)
    data,        \* line 135: the rendered document, a sequence of lines
    written,     \* line 143: whether the outfile was written
    logged       \* the messages passed to log(), in order

vars == << sesx, options, pc, i, tracks, files, playlist, sampleRate,
           _track, _name, sel, data, written, logged >>

---------------------------------------------------------------------------
(* Bounds of the model.                                                    *)

MaxNum == 130       \* decimal numerals -MaxNum..MaxNum (and their halves) are parsed
MaxBody == 4        \* free-form lines after the two signature lines
MaxClips == 2       \* clip lines per track in the structured inputs
MaxSel == 2         \* items of the -t list
MaxTracks == 2      \* tracks in the structured inputs
MaxEntries == 3     \* clips of the two tracks together in the inputs of the sort
MaxFiles == 2       \* file lines in the inputs of the join

---------------------------------------------------------------------------
(* JavaScript values.                                                      *)

Undefined == [t |-> "undefined", v |-> << >>]
Null == [t |-> "null", v |-> << >>]
Str(s) == [t |-> "string", v |-> s]

\* ToBoolean of undefined, null or a string
Truthy(x) == x.t = "string" /\ x.v # << >>

\* a || b
OrElse(a, b) == IF Truthy(a) THEN a ELSE b

---------------------------------------------------------------------------
(* JavaScript numbers as exact rationals.                                  *)

Abs(n) == IF n < 0 THEN -n ELSE n

RECURSIVE Gcd(_, _)
Gcd(a, b) == IF b = 0 THEN a ELSE Gcd(b, a % b)

NaN == [nan |-> TRUE, num |-> 0, den |-> 1]

\* num/den in lowest terms with a positive denominator (den # 0)
Rat(n, d) ==
    LET g == Gcd(Abs(n), Abs(d))
        s == IF d < 0 THEN -1 ELSE 1
    IN  [nan |-> FALSE, num |-> s * (n \div g), den |-> s * (d \div g)]

Num(n) == Rat(n, 1)

NumAdd(a, b) ==
    IF a.nan \/ b.nan THEN NaN
    ELSE Rat(a.num * b.den + b.num * a.den, a.den * b.den)

NumSub(a, b) ==
    IF a.nan \/ b.nan THEN NaN
    ELSE Rat(a.num * b.den - b.num * a.den, a.den * b.den)

\* a / b; the script divides by sampleRate, by 60 only, never by 0 (line 100)
NumDiv(a, b) ==
    IF a.nan \/ b.nan \/ b.num = 0 THEN NaN
    ELSE Rat(a.num * b.den, a.den * b.num)

\* integer quotient rounded toward zero
TruncDiv(n, d) ==
    IF (n >= 0) = (d > 0) \/ n = 0 THEN Abs(n) \div Abs(d) ELSE -(Abs(n) \div Abs(d))

\* a % b of JavaScript: the remainder has the sign of the dividend
NumRem(a, b) ==
    IF a.nan \/ b.nan \/ b.num = 0 THEN NaN
    ELSE LET q == TruncDiv(a.num * b.den, a.den * b.num)
         IN  NumSub(a, Rat(q * b.num, b.den))

\* x|0: ToInt32, NaN gives 0 and the fraction is dropped.  The wrap to 32 bits
\* cannot happen: every number of the model is far below 2^31 in magnitude.
ToInt32(a) ==
    IF a.nan THEN 0 ELSE TruncDiv(a.num, a.den)

\* the decimal numerals of the model and their values: n for |n| <= MaxNum and
\* n.5, -n.5 for 0 <= n <= MaxNum
Numerals ==
    [ tok \in { ToString(n) : n \in -MaxNum..MaxNum } |->
        Num(CHOOSE n \in -MaxNum..MaxNum : ToString(n) = tok) ]
    @@ [ tok \in { ToString(n) \o ".5" : n \in 0..MaxNum } |->
        Rat(2 * (CHOOSE n \in 0..MaxNum : (ToString(n) \o ".5") = tok) + 1, 2) ]
    @@ [ tok \in { "-" \o ToString(n) \o ".5" : n \in 0..MaxNum } |->
        Rat(-(2 * (CHOOSE n \in 0..MaxNum : ("-" \o ToString(n) \o ".5") = tok) + 1), 2) ]

\* the value of a decimal numeral, NaN for other text
NumeralValue(tok) == IF tok \in DOMAIN Numerals THEN Numerals[tok] ELSE NaN

\* unary + (ToNumber): undefined is NaN, "" is 0, a numeral its value, other text NaN
ToNumber(x) ==
    IF x.t = "undefined" THEN NaN
    ELSE IF x.t = "null" \/ x.v = << >> THEN Num(0)
    ELSE IF Len(x.v) = 1 THEN NumeralValue(x.v[1])
    ELSE NaN

---------------------------------------------------------------------------
(* Strings as token sequences.                                             *)

\* the position of the first token equal to sep, 0 if there is none
RECURSIVE IndexOf(_, _, _)
IndexOf(s, sep, from) ==
    IF from > Len(s) THEN 0
    ELSE IF s[from] = sep THEN from
    ELSE IndexOf(s, sep, from + 1)

\* String.prototype.split(sep): the pieces between the occurrences of sep
RECURSIVE Split(_, _)
Split(s, sep) ==
    LET k == IndexOf(s, sep, 1)
    IN  IF k = 0 THEN << s >>
        ELSE << SubSeq(s, 1, k - 1) >> \o Split(SubSeq(s, k + 1, Len(s)), sep)

\* String.prototype.trim(): white-space tokens dropped at both ends
RECURSIVE TrimStr(_)
TrimStr(s) ==
    IF s = << >> THEN s
    ELSE IF s[1] = " " THEN TrimStr(Tail(s))
    ELSE IF s[Len(s)] = " " THEN TrimStr(SubSeq(s, 1, Len(s) - 1))
    ELSE s

\* replace(/&amp;/g, '&')
Unescape(s) == [k \in 1..Len(s) |-> IF s[k] = "&amp;" THEN "&" ELSE s[k]]

\* padStart(2, '0') of the decimal text of an integer
PadStart2(txt) == IF Len(txt) < 2 THEN "0" \o txt ELSE txt

\* the tokens after the last separator token (Path.basename, Path.win32.basename)
RECURSIVE BasenameOf(_, _)
BasenameOf(s, seps) ==
    IF \E k \in 1..Len(s) : s[k] \in seps THEN BasenameOf(Tail(s), seps) ELSE s

\* Path.extname(src).substr(1).toUpperCase() for the extensions of the model
TypeOf(src) ==
    IF src = << >> THEN "" 
    ELSE CASE src[Len(src)] = ".mp3" -> "MP3"
           [] src[Len(src)] = ".wav" -> "WAV"
           [] OTHER -> ""

---------------------------------------------------------------------------
(* Lines of the session file.                                              *)

\* the markers the script tests with startsWith
AudioTrackTag == "<audioTrack "
NameTag == "<name>"
AudioClipTag == "<audioClip "
FileTag == "<file "
SessionTag == "<session "
XmlTag == "<?xml"
DoctypeTag == "<!DOCTYPE sesx>"

\* a line on which none of the eight patterns matches
Line(pad, tag) ==
    [ pad |-> pad, tag |-> tag,
      sampleRate |-> Undefined, trackName |-> Undefined, absolutePath |-> Undefined,
      name |-> Undefined, id |-> Undefined, startPoint |-> Undefined,
      endPoint |-> Undefined, fileID |-> Undefined ]

\* String.prototype.trim() of a line
Trim(line) == [line EXCEPT !.pad = 0]

\* String.prototype.toLowerCase() of a line (only the tag is ever tested)
ToLowerCase(line) ==
    [line EXCEPT !.tag = CASE @ = "<?XML" -> "<?xml"
                           [] @ = "<?Xml" -> "<?xml"
                           [] @ = DoctypeTag -> "<!doctype sesx>"
                           [] @ = AudioTrackTag -> "<audiotrack "
                           [] @ = AudioClipTag -> "<audioclip "
                           [] OTHER -> @]

\* String.prototype.startsWith(marker)
StartsWith(line, marker) == line.pad = 0 /\ line.tag = marker

\* getRX(rx, str): the first capture of the pattern on the line, or undefined.
\* (The patterns carry no g or y flag, so exec ignores lastIndex, and no
\* pattern can match at index 0 of a line: lastIndex stays 0.)
getRX(rx, line) ==
    CASE rx = "rxSampleRate" -> line.sampleRate
      [] rx = "rxTrackName" -> line.trackName
      [] rx = "rxPath" -> line.absolutePath
      [] rx = "rxName" -> line.name
      [] rx = "rxId" -> line.id
      [] rx = "rxStartPoint" -> line.startPoint
      [] rx = "rxEndPoint" -> line.endPoint
      [] rx = "rxFileId" -> line.fileID

---------------------------------------------------------------------------
(* The script.                                                             *)

\* log(msg): the message is a token sequence
Log(msg) == logged' = Append(logged, msg)

\* A TypeError thrown at top level ends the process; nothing later runs.
\* site is the line of index.js that throws.
Crash(site) == pc' = site

Crashed == pc \in { "crashed@56", "crashed@89", "crashed@165", "crashed@180" }

\* lines 56-58: the signature test.  sesx[0] always exists (split returns at
\* least one piece); sesx[1] is undefined for a one-line file and .trim() on
\* it throws, but && evaluates it only when the first test failed.
CheckSignature ==
    /\ pc = "check"
    /\ IF StartsWith(ToLowerCase(Trim(sesx[1])), XmlTag)
       THEN pc' = "scan" /\ UNCHANGED logged
       ELSE IF Len(sesx) < 2
       THEN Crash("crashed@56") /\ UNCHANGED logged
       ELSE IF ~StartsWith(Trim(sesx[2]), DoctypeTag)
       THEN pc' = "invalid" /\ Log(<<"Not a valid Audition sesx file.">>)
       ELSE pc' = "scan" /\ UNCHANGED logged
    /\ UNCHANGED << sesx, options, i, tracks, files, playlist, sampleRate,
                    _track, _name, sel, data, written >>

\* line 87 without the test of _name
TakesNameAlways(line) == StartsWith(line, NameTag)

\* line 87: the guard of the name rule
TakesName(line) == ~_name /\ StartsWith(line, NameTag)

\* line 91 with unshift in place of push
PushClipFront(track, n) == [track EXCEPT !.clips = << n >> \o @]

\* line 91: _track.clips.push(i)
PushClip(track, n) == [track EXCEPT !.clips = Append(@, n)]

\* line 94 without || null
FileIdOfRaw(line) == getRX("rxId", line)

\* line 94: getRX(rxId, line) || null
FileIdOf(line) == OrElse(getRX("rxId", line), Null)

\* lines 81-98: one iteration of sesx.forEach
ScanLine ==
    /\ pc = "scan"
    /\ i < Len(sesx)
    /\ LET line == Trim(sesx[i + 1]) IN
       IF StartsWith(line, AudioTrackTag)
       THEN /\ _name' = FALSE
            /\ tracks' = Append(tracks, [name |-> Str(<< >>), line |-> i, clips |-> << >>])
            /\ _track' = Len(tracks) + 1
            /\ i' = i + 1
            /\ UNCHANGED << pc, files, sampleRate >>
       ELSE IF TakesName(line)
       THEN /\ _name' = TRUE
            /\ IF _track = 0
               THEN \* _track is undefined: the assignment to _track.name throws
                    Crash("crashed@89") /\ UNCHANGED << tracks, i >>
               ELSE /\ tracks' = [tracks EXCEPT ![_track].name = getRX("rxTrackName", line)]
                    /\ i' = i + 1
                    /\ UNCHANGED pc
            /\ UNCHANGED << _track, files, sampleRate >>
       ELSE IF _track # 0 /\ StartsWith(line, AudioClipTag)
       THEN /\ tracks' = [tracks EXCEPT ![_track] = PushClip(@, i)]
            /\ i' = i + 1
            /\ UNCHANGED << pc, _name, _track, files, sampleRate >>
       ELSE IF StartsWith(line, FileTag)
       THEN /\ LET path == getRX("rxPath", line)
                   id == FileIdOf(line)
               IN  files' = IF Truthy(path)
                            THEN Append(files, [path |-> path, id |-> id])
                            ELSE files
            /\ i' = i + 1
            /\ UNCHANGED << pc, _name, _track, tracks, sampleRate >>
       ELSE IF StartsWith(line, SessionTag)
       THEN /\ sampleRate' = ToNumber(getRX("rxSampleRate", line))
            /\ i' = i + 1
            /\ UNCHANGED << pc, _name, _track, tracks, files >>
       ELSE /\ i' = i + 1
            /\ UNCHANGED << pc, _name, _track, tracks, files, sampleRate >>
    /\ UNCHANGED << sesx, options, playlist, sel, data, written, logged >>

\* lines 100-105: after the last line
ScanEnd ==
    /\ pc = "scan"
    /\ i = Len(sesx)
    /\ IF sampleRate.nan \/ sampleRate.num = 0
       THEN pc' = "fatal" /\ Log(<<"Could not detect sample rate.">>)
       ELSE IF options.info
       THEN pc' = "info" /\ UNCHANGED logged
       ELSE pc' = "build" /\ UNCHANGED logged
    /\ UNCHANGED << sesx, options, i, tracks, files, playlist, sampleRate,
                    _track, _name, sel, data, written >>

\* the text of a JavaScript value inside a template string or a join
TextOf(x) ==
    CASE x.t = "undefined" -> <<"undefined">>
      [] x.t = "null" -> <<"null">>
      [] OTHER -> x.v

RECURSIVE JoinNames(_)
JoinNames(ts) ==
    IF ts = << >> THEN << >>
    ELSE IF Len(ts) = 1 THEN (IF ts[1].name.t = "string" THEN ts[1].name.v ELSE << >>)
    ELSE (IF ts[1].name.t = "string" THEN ts[1].name.v ELSE << >>)
         \o <<", ">> \o JoinNames(Tail(ts))

\* lines 105-112: the information report
Info ==
    /\ pc = "info"
    /\ logged' = logged
          \o << <<"Audition sesx information:\n">>,
                <<"Number of tracks: ", ToString(Len(tracks)), " - (">>
                    \o JoinNames(tracks) \o <<")">> >>
          \o [k \in 1..Len(tracks) |->
                <<"  # of entries in track ", ToString(k - 1), ": ",
                  ToString(Len(tracks[k].clips))>>]
          \o << << >> >>
    /\ pc' = "done"
    /\ UNCHANGED << sesx, options, i, tracks, files, playlist, sampleRate,
                    _track, _name, sel, data, written >>

\* line 115: (options.track || '0').split(',').map(e => e|0)
TrackList ==
    LET items == Split(OrElse(options.track, Str(<<"0">>)).v, ",")
    IN  [k \in 1..Len(items) |-> ToInt32(ToNumber(Str(items[k])))]

\* line 75: options.delta|0
delta == ToInt32(ToNumber(options.delta))

\* lines 188-191
RECURSIVE getFilePathById(_, _)
getFilePathById(fs, id) ==
    IF fs = << >> THEN Null
    ELSE IF fs[1].id = id THEN fs[1].path
    ELSE getFilePathById(Tail(fs), id)

\* lines 119-126: the entry of the clip on line n (0-based)
EntryOf(n) ==
    LET line == sesx[n + 1]
        fileID == getRX("rxFileId", line)
        startPoint == NumDiv(ToNumber(getRX("rxStartPoint", line)), sampleRate)
        endPoint == NumDiv(ToNumber(getRX("rxEndPoint", line)), sampleRate)
    IN  [ startPoint |-> startPoint,
          duration |-> NumSub(endPoint, startPoint),
          path |-> getFilePathById(files, fileID),
          name |-> OrElse(getRX("rxName", line), Str(<< >>)) ]

\* lines 116-117 with the last track out of reach
HasTrackButLast(t) == t >= 0 /\ t < Len(tracks) - 1

\* lines 116-117: tracks[t] is an element of the array
HasTrack(t) == t >= 0 /\ t < Len(tracks)

\* lines 115-128: one iteration of the forEach over the selected tracks
BuildTrack ==
    /\ pc = "build"
    /\ sel < Len(TrackList)
    /\ LET t == TrackList[sel + 1] IN
       IF ~HasTrack(t)
       THEN /\ Log(<<"Project has no track ", ToString(t)>>)
            /\ UNCHANGED playlist
       ELSE /\ playlist' = playlist \o
                 [k \in 1..Len(tracks[t + 1].clips) |-> EntryOf(tracks[t + 1].clips[k])]
            /\ UNCHANGED logged
    /\ sel' = sel + 1
    /\ UNCHANGED << sesx, options, pc, i, tracks, files, sampleRate,
                    _track, _name, data, written >>

\* line 130: the comparator, a.startPoint - b.startPoint
CompareFn(a, b) == NumSub(a.startPoint, b.startPoint)

\* Array.prototype.sort reads the comparator's result as a sign; NaN counts as +0
SortCompare(a, b) ==
    LET v == CompareFn(a, b)
    IN  IF v.nan \/ v.num = 0 THEN 0 ELSE IF v.num < 0 THEN -1 ELSE 1

\* ECMAScript's "consistent comparator": here only transitivity can fail, when a
\* NaN startPoint compares equal to two startPoints that differ
Consistent(s) ==
    \A x, y, z \in 1..Len(s) :
        SortCompare(s[x], s[y]) = 0 /\ SortCompare(s[y], s[z]) = 0
            => SortCompare(s[x], s[z]) = 0

\* the insertion of an unstable sort: e goes in front of its equals
RECURSIVE InsertSortedUnstable(_, _)
InsertSortedUnstable(s, e) ==
    IF s = << >> THEN << e >>
    ELSE IF SortCompare(s[Len(s)], e) >= 0
    THEN Append(InsertSortedUnstable(SubSeq(s, 1, Len(s) - 1), e), s[Len(s)])
    ELSE Append(s, e)

\* e placed behind every element of the sorted s that is not greater than e
RECURSIVE InsertSorted(_, _)
InsertSorted(s, e) ==
    IF s = << >> THEN << e >>
    ELSE IF SortCompare(s[Len(s)], e) > 0
    THEN Append(InsertSorted(SubSeq(s, 1, Len(s) - 1), e), s[Len(s)])
    ELSE Append(s, e)

\* the stable ascending sort (ECMAScript 2019, Node >= 11)
RECURSIVE StableSort(_)
StableSort(s) ==
    IF s = << >> THEN << >>
    ELSE InsertSorted(StableSort(SubSeq(s, 1, Len(s) - 1)), s[Len(s)])

\* the orders Array.prototype.sort may leave: the stable sort for a consistent
\* comparator, otherwise an implementation-defined order of the same elements
SortResults(s) ==
    IF Consistent(s) THEN { StableSort(s) }
    ELSE { [k \in 1..Len(s) |-> s[p[k]]] : p \in Permutations(1..Len(s)) }

\* line 130: playlist.sort(...)
Sort ==
    /\ pc = "build"
    /\ sel = Len(TrackList)
    /\ playlist' \in SortResults(playlist)
    /\ pc' = "render"
    /\ UNCHANGED << sesx, options, i, tracks, files, sampleRate,
                    _track, _name, sel, data, written, logged >>

\* lines 193-197 with Math.floor in place of |0
toCueTSFloor(t) ==
    LET n == t.num \div (60 * t.den)
        r == (t.num - 60 * t.den * n) \div t.den
    IN  IF t.nan THEN "00:00:00"
        ELSE PadStart2(ToString(n)) \o ":" \o PadStart2(ToString(r)) \o ":00"

\* lines 193-197
toCueTS(t) ==
    LET min == ToString(ToInt32(NumDiv(t, Num(60))))
        sec == ToString(ToInt32(NumRem(t, Num(60))))
    IN  PadStart2(min) \o ":" \o PadStart2(sec) \o ":00"

\* line 160: e.name.split(' - ').map(e => e ? e.trim() : '')
PartsOf(name) ==
    LET raw == Split(name.v, " - ")
    IN  [k \in 1..Len(raw) |-> IF raw[k] # << >> THEN TrimStr(raw[k]) ELSE << >>]

\* lines 160-168: the four lines of entry k (1-based); parts[1] must exist
CueBlock(k) ==
    LET e == playlist[k]
        parts == PartsOf(e.name)
        artist == parts[1]
        title == parts[2]
    IN  << <<"  TRACK ", PadStart2(ToString(k)), " AUDIO">>,
           <<"    TITLE \"">> \o Unescape(title) \o <<"\"">>,
           <<"    PERFORMER \"">> \o Unescape(artist) \o <<"\"">>,
           <<"    INDEX 01 ", toCueTS(NumAdd(e.startPoint, Num(delta)))>> >>

RECURSIVE CueBlocks(_)
CueBlocks(n) == IF n = 0 THEN << >> ELSE CueBlocks(n - 1) \o CueBlock(n)

\* lines 137, 153-173: makeCue.  title is undefined when the name holds no
\* " - ", and title.replace then throws out of the forEach.
MakeCue ==
    /\ pc = "render"
    /\ options.ext = ".cue"
    /\ LET src == BasenameOf(
                     OrElse(options.source,
                            Str(<<"INSERT-FILENAME-TO-SOURCE", ".mp3">>)).v, {"/"})
       IN  IF \E k \in 1..Len(playlist) : Len(PartsOf(playlist[k].name)) < 2
           THEN Crash("crashed@165") /\ UNCHANGED data
           ELSE /\ data' = << <<"PERFORMER \"sesx2pl\"">>, <<"TITLE \"Playlist\"">>,
                              <<"FILE \"">> \o src \o <<"\" ", TypeOf(src)>> >>
                           \o CueBlocks(Len(playlist)) \o << << >> >>
                /\ pc' = "write"
    /\ UNCHANGED << sesx, options, i, tracks, files, playlist, sampleRate,
                    _track, _name, sel, written, logged >>

\* line 180: the path line of an entry; e.path is a string here, or subs is unset
M3UPath(e) ==
    IF Truthy(options.source)
    THEN LET base == BasenameOf(e.path.v, {"/", "\\"})
         IN  IF base = << >> THEN options.source.v
             ELSE options.source.v \o <<"/">> \o base
    ELSE IF e.path.t = "null" THEN << >> ELSE e.path.v

\* line 181: the two lines of an entry
M3UBlock(e) ==
    << <<"#EXTINF:", ToString(ToInt32(e.duration)), ",", "e.name">>, M3UPath(e) >>

RECURSIVE M3UBlocks(_)
M3UBlocks(n) == IF n = 0 THEN << >> ELSE M3UBlocks(n - 1) \o M3UBlock(playlist[n])

\* lines 138, 175-186: makeM3U.  Path.win32.basename(null) throws.
MakeM3U ==
    /\ pc = "render"
    /\ options.ext = ".m3u"
    /\ IF Truthy(options.source) /\ \E k \in 1..Len(playlist) : playlist[k].path.t = "null"
       THEN Crash("crashed@180") /\ UNCHANGED data
       ELSE /\ data' = << <<"#EXTM3U">> >> \o M3UBlocks(Len(playlist)) \o << << >> >>
            /\ pc' = "write"
    /\ UNCHANGED << sesx, options, i, tracks, files, playlist, sampleRate,
                    _track, _name, sel, written, logged >>

\* lines 140-149: the write may fail; "Done." is logged either way
Write ==
    /\ pc = "write"
    /\ \/ /\ written' = TRUE
          /\ logged' = logged \o << <<"Saving to: outfile">>, <<"Done.\n">> >>
       \/ /\ written' = FALSE
          /\ logged' = logged \o << <<"Saving to: outfile">>,
                                    <<"Error: Could not write to out file!">>,
                                    <<"Done.\n">> >>
    /\ pc' = "done"
    /\ UNCHANGED << sesx, options, i, tracks, files, playlist, sampleRate,
                    _track, _name, sel, data >>

Next ==
    \/ CheckSignature
    \/ ScanLine
    \/ ScanEnd
    \/ Info
    \/ BuildTrack
    \/ Sort
    \/ MakeCue
    \/ MakeM3U
    \/ Write

---------------------------------------------------------------------------
(* Inputs: session files and command lines.                                *)

XmlLine == Line(0, XmlTag)
DoctypeLine == Line(0, DoctypeTag)
OtherLine == Line(1, "<other>")
TrackLine == Line(1, AudioTrackTag)
NameLine(v) == [Line(1, NameTag) EXCEPT !.trackName = v]
SessionLine(rate) == [Line(1, SessionTag) EXCEPT !.sampleRate = rate]
FileLine(path, id) == [Line(1, FileTag) EXCEPT !.absolutePath = path, !.id = id]
ClipLine(fileID, startPoint, endPoint, name) ==
    [Line(1, AudioClipTag) EXCEPT !.fileID = fileID, !.startPoint = startPoint,
                                  !.endPoint = endPoint, !.name = name]

SeqsUpTo(S, n) == UNION { [1..k -> S] : k \in 0..n }

\* the parsed command line; ext is the lower-cased extension of the outfile
Opt(track, source, dlt, info, ext) ==
    [track |-> track, source |-> source, delta |-> dlt, info |-> info, ext |-> ext]

\* -i, or an outfile of either format
Modes == { <<TRUE, ".cue">>, <<FALSE, ".cue">>, <<FALSE, ".m3u">> }

\* the state after lines 20-54 and 62-79
InitWith(docs, opts) ==
    /\ sesx \in docs
    /\ options \in opts
    /\ pc = "check"
    /\ i = 0
    /\ tracks = << >>
    /\ files = << >>
    /\ playlist = << >>
    /\ sampleRate = Num(0)
    /\ _track = 0
    /\ _name = FALSE
    /\ sel = 0
    /\ data = << >>
    /\ written = FALSE
    /\ logged = << << >> >>

A1 == Str(<<"Art", " - ", "Song">>)
P1 == Str(<<"C:", "\\", "audio", "\\", "one", ".wav">>)
P2 == Str(<<"C:", "\\", "audio", "\\", "two", ".wav">>)
F1 == Str(<<"1">>)

\* free-form bodies behind a valid signature
ScanAlphabet ==
    { TrackLine, NameLine(Str(<<"A">>)), NameLine(Str(<<"B">>)),
      ClipLine(F1, Str(<<"0">>), Str(<<"1">>), A1), FileLine(P1, F1),
      SessionLine(Str(<<"1">>)), OtherLine }

ScanDocs == { <<XmlLine, DoctypeLine>> \o body : body \in SeqsUpTo(ScanAlphabet, MaxBody) }

ScanOpts == { Opt(Undefined, Undefined, Undefined, m[1], m[2]) : m \in Modes }

InitScan == InitWith(ScanDocs, ScanOpts)

SpecScan == InitScan /\ [][Next]_vars

\* signature lines of every shape in front of a small well-formed body
SigFirst == { XmlLine, Line(1, "<?XML"), OtherLine, TrackLine }
SigSecond == { DoctypeLine, Line(1, DoctypeTag), Line(0, "<!doctype sesx>"), OtherLine }
SigBody ==
    << SessionLine(Str(<<"1">>)), TrackLine, NameLine(Str(<<"A">>)),
       ClipLine(F1, Str(<<"0">>), Str(<<"1">>), A1), FileLine(P1, F1) >>

SigDocs ==
    { << a >> : a \in SigFirst }
      \cup { << a, b >> \o body : a \in SigFirst, b \in SigSecond, body \in { << >>, SigBody } }

InitSig == InitWith(SigDocs, ScanOpts)

SpecSig == InitSig /\ [][Next]_vars

\* the lines in front of the tracks of a structured input
DocHead(rate) == << XmlLine, DoctypeLine, SessionLine(rate) >>

\* a track of n equal clips
RECURSIVE Repeat(_, _)
Repeat(x, n) == IF n = 0 THEN << >> ELSE << x >> \o Repeat(x, n - 1)

TrackBlock(n) ==
    << TrackLine, NameLine(Str(<<"A">>)) >>
        \o Repeat(ClipLine(F1, Str(<<"0">>), Str(<<"1">>), A1), n)

RECURSIVE Flatten(_)
Flatten(ss) == IF ss = << >> THEN << >> ELSE ss[1] \o Flatten(Tail(ss))

SelectDocs ==
    { DocHead(Str(<<"1">>)) \o Flatten([k \in 1..Len(ns) |-> TrackBlock(ns[k])])
          \o << FileLine(P1, F1) >> :
      ns \in SeqsUpTo(0..MaxClips, MaxTracks) }

\* the items of a -t list, joined with commas
RECURSIVE JoinComma(_)
JoinComma(items) ==
    IF Len(items) = 1 THEN << items[1] >>
    ELSE << items[1], "," >> \o JoinComma(Tail(items))

SelItems == { "-1", "0", "1", "2", "x" }

SelStrings ==
    { Undefined, Str(<< >>) }
      \cup { Str(JoinComma(s)) : s \in SeqsUpTo(SelItems, MaxSel) \ { << >> } }

\* every -t list for a .cue outfile, and the other modes without -t
SelectOpts ==
    { Opt(t, Undefined, Undefined, FALSE, ".cue") : t \in SelStrings } \cup ScanOpts

InitSelect == InitWith(SelectDocs, SelectOpts)

SpecSelect == InitSelect /\ [][Next]_vars

\* two tracks whose clips differ in startPoint (absent, 0 or 1) and carry their
\* ordinal in the file as the artist
SortStarts == { Undefined, Str(<<"0">>), Str(<<"1">>) }

SortClips(starts, from) ==
    [k \in 1..Len(starts) |->
        ClipLine(F1, starts[k], Str(<<"2">>), Str(<<ToString(from + k), " - ", "x">>))]

SortDoc(s0, s1) ==
    DocHead(Str(<<"1">>)) \o << TrackLine >> \o SortClips(s0, 0)
        \o << TrackLine >> \o SortClips(s1, Len(s0)) \o << FileLine(P1, F1) >>

SortDocs ==
    { SortDoc(ss[1], ss[2]) :
      ss \in { tt \in SeqsUpTo(SortStarts, MaxEntries) \X SeqsUpTo(SortStarts, MaxEntries) :
                Len(tt[1]) + Len(tt[2]) <= MaxEntries } }

SortOpts ==
    { Opt(Str(t), Undefined, Undefined, m[1], m[2]) :
      t \in { <<"0", ",", "1">>, <<"1", ",", "0">> }, m \in Modes }

InitSort == InitWith(SortDocs, SortOpts)

SpecSort == InitSort /\ [][Next]_vars

\* one clip and file lines of every shape
JoinFileLines ==
    { FileLine(path, id) : path \in { Undefined, P1, P2 },
                           id \in { Undefined, Str(<< >>), F1 } }

JoinDocs ==
    { DocHead(Str(<<"1">>)) \o << TrackLine, ClipLine(fid, Str(<<"0">>), Str(<<"1">>), A1) >> \o fl :
      fid \in { Undefined, Str(<< >>), F1, Str(<<"2">>) },
      fl \in SeqsUpTo(JoinFileLines, MaxFiles) }

InitJoin == InitWith(JoinDocs, ScanOpts)

SpecJoin == InitJoin /\ [][Next]_vars

\* one or two clips of every name shape, start points around the minute
\* boundaries, and command lines of every delta
RenderNames ==
    { Undefined, Str(<< >>), Str(<<"X">>), A1, Str(<<"Art", " - ">>),
      Str(<<"R", "&amp;", "B", " ", " - ", " ", "Song">>),
      Str(<<"A", " - ", "B", " - ", "C">>) }

RenderDocs ==
    { DocHead(rate) \o << TrackLine, ClipLine(fid, start, end, name), FileLine(P1, F1) >> :
      rate \in { Str(<<"1">>), Str(<<"2">>) },
      fid \in { F1, Undefined },
      start \in { Undefined, Str(<<"0">>), Str(<<"59">>), Str(<<"119">>), Str(<<"125">>) },
      end \in { Str(<<"126">>), Str(<<"130">>) },
      name \in RenderNames }
    \cup
    { DocHead(rate) \o << TrackLine, ClipLine(F1, Str(<<"0">>), Str(<<"2">>), A1),
                       ClipLine(F1, Str(<<"4">>), Str(<<"6">>), name), FileLine(P1, F1) >> :
      rate \in { Str(<<"1">>), Str(<<"2">>) }, name \in RenderNames }

RenderOpts ==
    { Opt(Undefined, src, d, m[1], m[2]) :
      src \in { Undefined, Str(<<"mix", "/", "set", ".wav">>) },
      d \in { Undefined, Str(<<"0">>), Str(<<"1">>), Str(<<"-1">>), Str(<<"1.5">>),
              Str(<<"-0.5">>), Str(<<"-1.5">>), Str(<<"-61">>), Str(<<"x">>) },
      m \in Modes }

InitRender == InitWith(RenderDocs, RenderOpts)

SpecRender == InitRender /\ [][Next]_vars

\* every input of the model
Init ==
    InitScan \/ InitSig \/ InitSelect \/ InitSort \/ InitJoin \/ InitRender

Spec == Init /\ [][Next]_vars

---------------------------------------------------------------------------
(* Properties of the signature check and of the scan.                      *)

\* the set S of integers in ascending order
RECURSIVE Ascending(_)
Ascending(S) ==
    IF S = {} THEN << >>
    ELSE LET m == CHOOSE x \in S : \A y \in S : x <= y
         IN  << m >> \o Ascending(S \ { m })

\* line n (0-based) of the file starts, once trimmed, with the marker
LineIs(n, marker) == sesx[n + 1].tag = marker

\* the lines scanned so far that lie strictly behind the header of track k and
\* in front of the next track header
RangeOf(k) ==
    { n \in 0..(i - 1) :
        /\ n > tracks[k].line
        /\ k < Len(tracks) => n < tracks[k + 1].line }

ScanFinished == pc \notin { "check", "scan" } /\ ~Crashed /\ pc # "invalid"

\* C5: both signature markers are required; a file that lacks either one gets
\* the "not a valid" message and nothing is scanned, built or written.
C5_BothMarkersRequired ==
    LET firstOk == sesx[1].tag \in { "<?xml", "<?XML" }
        secondOk == Len(sesx) >= 2 /\ sesx[2].tag = DoctypeTag
    IN  (pc # "check" /\ ~(firstOk /\ secondOk)) =>
            /\ pc = "invalid"
            /\ logged[Len(logged)] = <<"Not a valid Audition sesx file.">>
            /\ i = 0 /\ tracks = << >> /\ files = << >> /\ playlist = << >>
            /\ data = << >> /\ ~written

\* C8 (state part): the name of every track is the capture of the first name
\* line in its range, and empty when its range holds no name line.
C8_FirstNameOnly ==
    \A k \in 1..Len(tracks) :
        LET N == { n \in RangeOf(k) : LineIs(n, NameTag) }
        IN  tracks[k].name =
                IF N = {} THEN Str(<< >>)
                ELSE sesx[(CHOOSE n \in N : \A m \in N : n <= m) + 1].trackName

\* C8 (step part): a name line met after the name of the current track was
\* captured changes nothing of the scanner but the line index.
C8_LaterNameIgnored ==
    (pc = "scan" /\ i < Len(sesx) /\ _name /\ LineIs(i, NameTag)) =>
        /\ i' = i + 1
        /\ UNCHANGED << tracks, files, sampleRate, _track, _name, pc >>

\* C8: first name line after a track header names the track; later ones are
\* ignored until the next header.
C8_TrackNameCapturedOnce == []C8_FirstNameOnly /\ [][C8_LaterNameIgnored]_vars

\* a finished scan in which a second, different name line was ignored and a
\* second track took its own name
C8_Witness ==
    /\ ScanFinished
    /\ \E k \in 1..Len(tracks) :
          \E n, m \in RangeOf(k) :
              /\ n < m /\ LineIs(n, NameTag) /\ LineIs(m, NameTag)
              /\ sesx[n + 1].trackName # sesx[m + 1].trackName
              /\ tracks[k].name = sesx[n + 1].trackName

\* C9: the clip indices of every track are exactly the clip lines of its
\* range, ascending; a clip line in front of the first header is in no track.
C9_ClipsOfRange ==
    \A k \in 1..Len(tracks) :
        tracks[k].clips = Ascending({ n \in RangeOf(k) : LineIs(n, AudioClipTag) })

\* a finished scan with a clip line in front of the first header and a track
\* of two clips
C9_Witness ==
    /\ ScanFinished
    /\ Len(tracks) >= 1
    /\ \E n \in 0..(tracks[1].line - 1) : LineIs(n, AudioClipTag)
    /\ \E k \in 1..Len(tracks) : Len(tracks[k].clips) >= 2

\* C10: the scan never throws: every line is processed and the scan ends
\* with a sample rate or with the fatal message.
C10_ScanNeverThrows ==
    /\ pc # "crashed@89"
    /\ pc \notin { "check", "scan", "invalid", "crashed@56" } => i = Len(sesx)

---------------------------------------------------------------------------
(* Properties of the build and of the sort.                                *)

\* the number of clips of track t (0-based), 0 when the project has no track t
ClipCount(t) == IF t >= 0 /\ t < Len(tracks) THEN Len(tracks[t + 1].clips) ELSE 0

RECURSIVE SumClips(_)
SumClips(ts) == IF ts = << >> THEN 0 ELSE ClipCount(ts[1]) + SumClips(Tail(ts))

\* the items of the selection handled so far
Handled == SubSeq(TrackList, 1, IF pc = "build" THEN sel ELSE Len(TrackList))

Building == pc \in { "build", "render", "write" }

\* C1 as stated: the number of entries is the sum of the clip counts of the
\* selected tracks that exist, each selected track counted once.
C1_EachTrackOnce ==
    Building =>
        Len(playlist) = SumClips(Ascending({ Handled[k] : k \in 1..Len(Handled) }))

\* C1 amended: every item of the selection list contributes the clip count of
\* the track it names, as often as it is listed, and zero when the project
\* has no such track; the build goes on behind such an item.
C1_EntryCount ==
    /\ Building => Len(playlist) = SumClips(Handled)
    /\ pc = "build" => sel <= Len(TrackList)

\* the build is over and one track with clips was listed twice
C1_Witness ==
    /\ pc = "render"
    /\ Len(TrackList) = 2
    /\ TrackList[1] = TrackList[2]
    /\ ClipCount(TrackList[1]) > 0

\* a selection with an item that names no track, in front of one that does
C1_WitnessMissing ==
    /\ pc = "render"
    /\ Len(TrackList) = 2
    /\ ClipCount(TrackList[1]) = 0 /\ TrackList[1] \notin 0..(Len(tracks) - 1)
    /\ ClipCount(TrackList[2]) > 0

\* a <= b for two numbers
NumLeq(a, b) == a.num * b.den <= b.num * a.den

AllNumeric(s) == \A k \in 1..Len(s) : ~s[k].startPoint.nan

\* after is before in ascending startPoint order, ties in the order of before;
\* an entry without a numeric startPoint is bound by neither condition
IsStableSortOf(after, before) ==
    /\ Len(after) = Len(before)
    /\ \E p \in Permutations(1..Len(before)) :
          /\ \A k \in 1..Len(before) : after[k] = before[p[k]]
          /\ \A k, l \in 1..Len(before) :
                (k < l /\ ~after[k].startPoint.nan /\ ~after[l].startPoint.nan) =>
                    /\ NumLeq(after[k].startPoint, after[l].startPoint)
                    /\ after[k].startPoint = after[l].startPoint => p[k] < p[l]

SortStep == pc = "build" /\ pc' = "render"

\* C2 as stated: the sort leaves the entries in non-decreasing startPoint
\* order, ties in insertion order.
C2_SortedStable == [][SortStep => IsStableSortOf(playlist', playlist)]_vars

\* C2 amended: when every entry has a numeric startPoint, the sort leaves the
\* entries in non-decreasing startPoint order, ties in insertion order.
C2_SortedStableNumeric ==
    [][(SortStep /\ AllNumeric(playlist)) => IsStableSortOf(playlist', playlist)]_vars

\* three numeric entries, sorted: the third clip of the file came first and the
\* other two, which tie, kept their order
C2_Witness ==
    /\ pc = "render"
    /\ Len(playlist) = 3
    /\ AllNumeric(playlist)
    /\ playlist[1].name.v[1] = "3"
    /\ playlist[2].startPoint = playlist[3].startPoint
    /\ playlist[2].name.v[1] = "1"

\* the clip lines of the selected tracks in insertion order
RECURSIVE SelectedClips(_)
SelectedClips(ts) ==
    IF ts = << >> THEN << >>
    ELSE (IF ClipCount(ts[1]) > 0 THEN tracks[ts[1] + 1].clips ELSE << >>)
         \o SelectedClips(Tail(ts))

\* a file line that the scan registers: it carries a path
IsFileRef(line) ==
    /\ line.tag = FileTag
    /\ line.absolutePath.t = "string" /\ line.absolutePath.v # << >>

\* the file reference has an id and it is the clip's fileID
IdMatches(ref, clip) ==
    /\ ref.id.t = "string" /\ ref.id.v # << >>
    /\ clip.fileID.t = "string"
    /\ ref.id.v = clip.fileID.v

\* C7: the path of an entry is the path of the first file reference whose id
\* is the clip's fileID, null without one; a reference without an id is
\* never found, not even by a clip without a fileID.
C7_FirstMatchingFile ==
    (pc = "build" /\ sel = Len(TrackList)) =>
        LET refs == SelectSeq(sesx, IsFileRef)
            clips == SelectedClips(TrackList)
        IN  /\ Len(playlist) = Len(clips)
            /\ \A k \in 1..Len(clips) :
                  LET clip == sesx[clips[k] + 1]
                      M == { j \in 1..Len(refs) : IdMatches(refs[j], clip) }
                  IN  playlist[k].path =
                          IF M = {} THEN Null
                          ELSE refs[CHOOSE j \in M : \A m \in M : j <= m].absolutePath

\* a clip without a fileID beside a registered file without an id: no path
C7_Witness ==
    /\ pc = "render"
    /\ Len(playlist) = 1
    /\ playlist[1].path = Null
    /\ \E n \in 1..Len(sesx) :
          sesx[n].tag = AudioClipTag /\ sesx[n].fileID = Undefined
    /\ \E j \in 1..Len(files) : files[j].id = Null

---------------------------------------------------------------------------
(* Properties of the renderers.                                            *)

CueWritten == pc = "write" /\ options.ext = ".cue"

M3UWritten == pc = "write" /\ options.ext = ".m3u"

\* a segment of a name as the sheet shows it: trimmed, &amp; unescaped
Shown(seg) == Unescape(TrimStr(seg))

\* C3: one TRACK block per entry, in order; PERFORMER is the first segment of
\* the name split on " - " and TITLE the second, empty when the name holds no
\* separator; the rendering completes for every name.
C3_CueTitlePerformer ==
    /\ pc # "crashed@165"
    /\ CueWritten =>
          /\ Len(data) = 3 + 4 * Len(playlist) + 1
          /\ \A k \in 1..Len(playlist) :
                LET segs == Split(playlist[k].name.v, " - ")
                    title == IF Len(segs) >= 2 THEN segs[2] ELSE << >>
                IN  /\ data[4 * k] = <<"  TRACK ", PadStart2(ToString(k)), " AUDIO">>
                    /\ data[4 * k + 1] = <<"    TITLE \"">> \o Shown(title) \o <<"\"">>
                    /\ data[4 * k + 2] = <<"    PERFORMER \"">> \o Shown(segs[1]) \o <<"\"">>

\* C4: for every entry, in playlist order, an #EXTINF line with the duration
\* in whole seconds and the name of the entry, then the path line of the entry.
C4_ExtinfNameAndPath ==
    M3UWritten =>
        /\ Len(data) = 1 + 2 * Len(playlist) + 1
        /\ \A k \in 1..Len(playlist) :
              /\ data[2 * k] =
                    <<"#EXTINF:", ToString(ToInt32(playlist[k].duration)), ",">>
                        \o playlist[k].name.v
              /\ data[2 * k + 1] = M3UPath(playlist[k])

\* the value of -d as the caller wrote it (0 without -d)
SuppliedDelta == IF options.delta = Undefined THEN Num(0) ELSE ToNumber(options.delta)

\* n / d rounded toward zero, d > 0
TowardZero(n, d) == IF n >= 0 THEN n \div d ELSE -((-n) \div d)

\* MM:SS:00 of a number of seconds t, the quotient and the remainder of the
\* division by 60 rounded by round (an operator on n, d with d > 0)
Stamp(t, round(_, _)) ==
    LET mm == round(t.num, 60 * t.den)
        rest == t.num - 60 * t.den * TowardZero(t.num, 60 * t.den)
        ss == round(rest, t.den)
    IN  PadStart2(ToString(mm)) \o ":" \o PadStart2(ToString(ss)) \o ":00"

FloorOf(n, d) == n \div d

=============================================================================
